---- MODULE Spec2Model ----
(***************************************************************************)
(* Conversation session of the Streamlit chat front-end (src/app.py).      *)
(*                                                                         *)
(* The script is executed top to bottom once per user interaction (one     *)
(* "run").  st.session_state.messages survives between runs; everything    *)
(* else is a local of the run.  Strings are sequences of characters.       *)
(* A run that handles a chat submission is split at the calls to the       *)
(* external gateway and at the iterations of the typing-effect loop; pc    *)
(* is the position of the run.                                             *)
(***************************************************************************)
EXTENDS Integers, Sequences, FiniteSets, TLC

\* ---------------------------------------------------------------- bounds
\* longest gateway response, in increments
MaxRespLen == 2
\* longest conversation a submission may still be added to, plus two
MaxTurns == 4

\* ------------------------------------------------------------- alphabets
\* whitespace characters of a submitted string
Whitespace == {" "}
\* the cursor glyph of the typing effect (app.py:93, U+258C)
Cursor == "|"
\* the increments a response is made of: the characters of the returned str
Chars == {"a", "b"}
\* descriptions str(e) of the exceptions the gateway may raise
Errs == {"e1", "e2"}
NoErr == "none"
\* a name the uploader may hand over (app.py:42 allows txt, pdf, docx)
UploadNames == {"notes.txt"}
NoFile == "None"
\* the name tempfile picks, up to its suffix
TmpStem == "tmp"
NoPath == <<>>

Strings(n) == UNION {[1..k -> Chars] : k \in 0..n}

\* what st.chat_input hands over: nothing submitted (empty, falsy), only
\* whitespace, and two texts that differ
Prompts == {<<>>, <<" ">>, <<"a">>, <<"a", "b">>}

\* what llm.invoke returns: any text up to MaxRespLen characters
Responses == Strings(MaxRespLen)

\* ---------------------------------------------------------------- state
VARIABLES
  messages,       \* st.session_state.messages
  uploaded_file,  \* value of the st.file_uploader widget
  file_path,      \* local file_path of the run (NoPath when unbound)
  pc,             \* position of the current run
  event,          \* the interaction that started the current/last run
  prompt,         \* value returned by st.chat_input in the run
  response,       \* value returned by llm.invoke
  full_response,  \* accumulator of the typing-effect loop
  writes,         \* writes to message_placeholder in the run, in order
  errors,         \* st.error annotations shown by the run, in order
  invoked,        \* arguments of the llm.invoke calls of the run, in order
  site,           \* where the exception of the run was raised
  exc,            \* str(e) of the exception of the run
  before,         \* history: messages when the current/last run started
  subs,           \* history: truthy prompts submitted since the last clear
  echoed          \* history: every submission since the last clear was
                  \* answered, without failure, by its own prompt

vars == <<messages, uploaded_file, file_path, pc, event, prompt, response,
          full_response, writes, errors, invoked, site, exc, before, subs,
          echoed>>

\* ------------------------------------------------------ pure operations
UserTurn(p) == [role |-> "user", content |-> p]
AssistantTurn(c) == [role |-> "assistant", content |-> c]

\* app.py:69  `if prompt := st.chat_input(...)`: Python truthiness of a str
Truthy(p) == Len(p) > 0

\* variant: a user turn is refused right after another user turn
AppendUserAlternating(msgs, p) ==
  IF msgs # <<>> /\ msgs[Len(msgs)].role = "user"
  THEN msgs
  ELSE Append(msgs, UserTurn(p))

\* variant: the user turn is inserted at the head of the list
AppendUserAtHead(msgs, p) == <<UserTurn(p)>> \o msgs

\* app.py:71
AppendUser(msgs, p) == Append(msgs, UserTurn(p))

\* app.py:100
AppendAssistant(msgs, acc) == Append(msgs, AssistantTurn(acc))

\* variant: the latest turn is kept
ClearMessagesKeepLast(msgs) ==
  IF msgs = <<>> THEN <<>> ELSE <<msgs[Len(msgs)]>>

\* variant: only the latest turn is dropped
ClearMessagesDropLast(msgs) ==
  IF msgs = <<>> THEN <<>> ELSE SubSeq(msgs, 1, Len(msgs) - 1)

\* app.py:51  st.session_state.messages = []
ClearMessages(msgs) == <<>>

\* variant: the suffix of the stored upload is sent along with the prompt
InvokeArgWithFile(p, msgs) ==
  IF file_path = NoPath THEN p ELSE Append(p, file_path[2])

\* variant: the earlier turns are sent along with the prompt
InvokeArgWithHistory(p, msgs) ==
  IF Len(msgs) > 1 THEN msgs[1].content \o p ELSE p

\* app.py:87  the argument handed to llm.invoke
InvokeArg(p, msgs) == p

\* variant: the increment is put in front of the accumulator
AccumulateInFront(acc, chunk) == <<chunk>> \o acc

\* app.py:92  full_response += chunk
Accumulate(acc, chunk) == Append(acc, chunk)

\* app.py:93  message_placeholder.markdown(full_response + cursor)
CursorFrame(acc) == Append(acc, Cursor)

\* variant: the final frame keeps the cursor
FinalFrameWithCursor(acc) == Append(acc, Cursor)

\* app.py:97  message_placeholder.markdown(full_response)
FinalFrame(acc) == acc

\* variant: the annotation does not carry str(e)
ErrorAnnotationBare(e) == <<"An error occurred">>

\* app.py:103  f"An error occurred: {str(e)}"
ErrorAnnotation(e) == <<"An error occurred: ", e>>

\* variant: the except clause commits the (empty) accumulator
MessagesOnErrorCommitEmpty(msgs) == Append(msgs, AssistantTurn(<<>>))

\* variant: the except clause takes the user turn back
MessagesOnErrorRollback(msgs) == SubSeq(msgs, 1, Len(msgs) - 1)

\* app.py:102-103  the except clause: annotation shown, messages untouched
MessagesOnError(msgs) == msgs

\* app.py:32  Path(uploaded_file.name).suffix
Suffix(name) == IF name = "notes.txt" THEN ".txt" ELSE ""

\* app.py:28-35  process_file: a temporary file with the suffix of the upload
process_file(name) ==
  IF name = NoFile THEN NoPath ELSE <<TmpStem, Suffix(name)>>

\* ------------------------------------------------------------------ Init
Init ==
  /\ messages = <<>>
  /\ uploaded_file = NoFile
  /\ file_path = NoPath
  /\ pc = "Idle"
  /\ event = "start"
  /\ prompt = <<>>
  /\ response = <<>>
  /\ full_response = <<>>
  /\ writes = <<>>
  /\ errors = <<>>
  /\ invoked = <<>>
  /\ site = "none"
  /\ exc = NoErr
  /\ before = <<>>
  /\ subs = <<>>
  /\ echoed = TRUE

\* variant: a run is started while another one is still in flight
StartRunAnytime(ev, file) ==
  /\ event' = ev
  /\ uploaded_file' = file
  /\ file_path' = process_file(file)
  /\ response' = <<>>
  /\ full_response' = <<>>
  /\ writes' = <<>>
  /\ errors' = <<>>
  /\ invoked' = <<>>
  /\ site' = "none"
  /\ exc' = NoErr

\* what every run does before the button and the chat input are looked at:
\* the page is redrawn, the locals are fresh, the sidebar handles the upload
\* (app.py:42-47)
StartRun(ev, file) ==
  /\ pc = "Idle"
  /\ event' = ev
  /\ uploaded_file' = file
  /\ file_path' = process_file(file)
  /\ response' = <<>>
  /\ full_response' = <<>>
  /\ writes' = <<>>
  /\ errors' = <<>>
  /\ invoked' = <<>>
  /\ site' = "none"
  /\ exc' = NoErr

\* the user picks or removes a file: a run with no click and no chat input
Upload ==
  /\ \E f \in UploadNames \cup {NoFile} :
       /\ f # uploaded_file
       /\ StartRun("upload", f)
  /\ prompt' = <<>>
  /\ before' = messages
  /\ UNCHANGED <<messages, pc, subs, echoed>>

\* app.py:50-52  the Clear Conversation button
Clear ==
  /\ StartRun("clear", uploaded_file)
  /\ messages' = ClearMessages(messages)
  /\ prompt' = <<>>
  /\ before' = messages
  /\ subs' = <<>>
  /\ echoed' = TRUE
  /\ UNCHANGED pc

\* app.py:69-79  a chat submission: the guard and the append of the user turn
Submit ==
  \E p \in Prompts :
    /\ StartRun("submit", uploaded_file)
    /\ prompt' = p
    /\ before' = messages
    /\ IF Truthy(p)
       THEN /\ Len(messages) + 2 <= MaxTurns
            /\ messages' = AppendUser(messages, p)
            /\ subs' = Append(subs, p)
            /\ pc' = "AwaitingResponse"
            /\ UNCHANGED echoed
       ELSE UNCHANGED <<messages, subs, pc, echoed>>

\* app.py:83  load_llm() raises inside the try
LoadFails ==
  /\ pc = "AwaitingResponse"
  /\ \E e \in Errs :
       /\ exc' = e
       /\ errors' = Append(errors, ErrorAnnotation(e))
  /\ site' = "load"
  /\ messages' = MessagesOnError(messages)
  /\ echoed' = FALSE
  /\ pc' = "Failed"
  /\ UNCHANGED <<uploaded_file, file_path, event, prompt, response,
                 full_response, writes, invoked, before, subs>>

\* app.py:87  llm.invoke(prompt) raises
InvokeFails ==
  /\ pc = "AwaitingResponse"
  /\ invoked' = Append(invoked, InvokeArg(prompt, messages))
  /\ \E e \in Errs :
       /\ exc' = e
       /\ errors' = Append(errors, ErrorAnnotation(e))
  /\ site' = "invoke"
  /\ messages' = MessagesOnError(messages)
  /\ echoed' = FALSE
  /\ pc' = "Failed"
  /\ UNCHANGED <<uploaded_file, file_path, event, prompt, response,
                 full_response, writes, before, subs>>

\* app.py:87-90  llm.invoke(prompt) returns; the accumulator is reset
InvokeReturns ==
  /\ pc = "AwaitingResponse"
  /\ invoked' = Append(invoked, InvokeArg(prompt, messages))
  /\ \E r \in Responses :
       /\ response' = r
       /\ echoed' = (echoed /\ r = prompt)
  /\ full_response' = <<>>
  /\ pc' = "Streaming"
  /\ UNCHANGED <<messages, uploaded_file, file_path, event, prompt, writes,
                 errors, site, exc, before, subs>>

\* the final frame of app.py:97 has been written
FinalWritten == Len(writes) = Len(full_response) + 1

\* app.py:91-94  one iteration of the typing-effect loop
StreamChunk ==
  /\ pc = "Streaming"
  /\ ~FinalWritten
  /\ Len(full_response) < Len(response)
  /\ LET acc == Accumulate(full_response, response[Len(full_response) + 1])
     IN  /\ full_response' = acc
         /\ writes' = Append(writes, CursorFrame(acc))
  /\ UNCHANGED <<messages, uploaded_file, file_path, pc, event, prompt,
                 response, errors, invoked, site, exc, before, subs, echoed>>

\* app.py:91-92  fetching or accumulating the next increment raises
StreamFails ==
  /\ pc = "Streaming"
  /\ ~FinalWritten
  /\ \E e \in Errs :
       /\ exc' = e
       /\ errors' = Append(errors, ErrorAnnotation(e))
  /\ site' = "iterate"
  /\ messages' = MessagesOnError(messages)
  /\ echoed' = FALSE
  /\ pc' = "Failed"
  /\ UNCHANGED <<uploaded_file, file_path, event, prompt, response,
                 full_response, writes, invoked, before, subs>>

\* app.py:97  the increments are exhausted: the frame without the cursor
FinalWrite ==
  /\ pc = "Streaming"
  /\ ~FinalWritten
  /\ Len(full_response) = Len(response)
  /\ writes' = Append(writes, FinalFrame(full_response))
  /\ UNCHANGED <<messages, uploaded_file, file_path, pc, event, prompt,
                 response, full_response, errors, invoked, site, exc, before,
                 subs, echoed>>

\* variant: the turn is committed as soon as the increments are exhausted
CommitBeforeFinalWrite ==
  /\ pc = "Streaming"
  /\ Len(full_response) = Len(response)
  /\ messages' = AppendAssistant(messages, full_response)
  /\ pc' = "Committed"
  /\ UNCHANGED <<uploaded_file, file_path, event, prompt, response,
                 full_response, writes, errors, invoked, site, exc, before,
                 subs, echoed>>

\* app.py:100  the assistant turn is committed
Commit ==
  /\ pc = "Streaming"
  /\ FinalWritten
  /\ messages' = AppendAssistant(messages, full_response)
  /\ pc' = "Committed"
  /\ UNCHANGED <<uploaded_file, file_path, event, prompt, response,
                 full_response, writes, errors, invoked, site, exc, before,
                 subs, echoed>>

\* app.py:104-217  the rest of the script: the run ends, the page waits
EndRun ==
  /\ pc \in {"Committed", "Failed"}
  /\ pc' = "Idle"
  /\ UNCHANGED <<messages, uploaded_file, file_path, event, prompt, response,
                 full_response, writes, errors, invoked, site, exc, before,
                 subs, echoed>>

\* the steps of a run in flight
RunStep ==
  \/ LoadFails
  \/ InvokeFails
  \/ InvokeReturns
  \/ StreamChunk
  \/ StreamFails
  \/ FinalWrite
  \/ Commit
  \/ EndRun

Next == Upload \/ Clear \/ Submit \/ RunStep

Spec == Init /\ [][Next]_vars

\* the script runs to its end once started: nothing suspends a run
FairSpec == Spec /\ WF_vars(RunStep)

TypeOK ==
  /\ pc \in {"Idle", "AwaitingResponse", "Streaming", "Committed", "Failed"}
  /\ Len(messages) <= MaxTurns
  /\ prompt \in Prompts
  /\ response \in Responses

\* ------------------------------------------------------------ properties
IsBlank(p) == \A i \in 1..Len(p) : p[i] \in Whitespace

IsPrefix(s, t) == Len(s) <= Len(t) /\ SubSeq(t, 1, Len(s)) = s

Last(s) == s[Len(s)]

\* user turn k followed by assistant turn k, both with the k-th prompt
EchoTurns(ps) ==
  [i \in 1..(2 * Len(ps)) |->
     IF i % 2 = 1 THEN UserTurn(ps[(i + 1) \div 2])
                  ELSE AssistantTurn(ps[i \div 2])]

\* C1: after N non-blank submissions with no clear in between, each answered
\* by a gateway that returns its input, the conversation has exactly 2N
\* turns, alternating user/assistant, the k-th pair carrying the k-th prompt.
C1_EchoGivesAlternatingTurns ==
  (pc \in {"Idle", "Committed"} /\ echoed
     /\ \A k \in 1..Len(subs) : ~IsBlank(subs[k]))
  => /\ Len(messages) = 2 * Len(subs)
     /\ messages = EchoTurns(subs)

C1_Witness ==
  /\ pc = "Idle"
  /\ echoed
  /\ Len(subs) = 2
  /\ ~IsBlank(subs[1]) /\ ~IsBlank(subs[2])
  /\ subs[1] # subs[2]
  /\ Len(messages) = 4

\* C2 (as stated): when llm.invoke raises, the conversation equals the one
\* before the submission and exactly one error annotation is shown.
C2_InvokeFailureLeavesStateAsBefore ==
  (site = "invoke") => (messages = before /\ Len(errors) = 1)

\* C2 (amended): when llm.invoke raises, the conversation is the one before
\* the submission extended by the user turn of the submission and nothing
\* else (no assistant turn), and exactly one error annotation is shown.
C2_InvokeFailureKeepsOnlyUserTurn ==
  (site = "invoke")
  => /\ pc \in {"Failed", "Idle"}
     /\ messages = Append(before, UserTurn(prompt))
     /\ Len(errors) = 1

C2_Witness ==
  /\ pc = "Failed"
  /\ site = "invoke"
  /\ Len(before) = 2
  /\ Len(messages) = 3

\* C3: a failure while loading the model, during invoke or while iterating
\* the increments is caught: one annotation carrying the failure description
\* is shown, no assistant turn (partial or empty) is appended, and the
\* session goes on to accept submissions and clears.
C3_FailureIsCaughtAndNotCommitted ==
  (site # "none")
  => /\ pc \in {"Failed", "Idle"}
     /\ exc \in Errs
     /\ Len(errors) = 1
     /\ \E i \in 1..Len(errors[1]) : errors[1][i] = exc
     /\ messages = Append(before, UserTurn(prompt))
     /\ \A i \in 1..Len(messages) :
          i > Len(before) => messages[i].role # "assistant"
     /\ pc = "Failed" => ENABLED EndRun
     /\ pc = "Idle" => (ENABLED Clear /\ ENABLED Submit)

C3_Witness ==
  /\ pc = "Idle"
  /\ site = "iterate"
  /\ Len(writes) >= 1
  /\ Len(full_response) < Len(response)

\* C4: a response of N increments streamed without failure produces exactly
\* N+1 placeholder writes: write i is the first i increments followed by the
\* cursor, the last write is all N increments without the cursor.
C4_StreamingWrites ==
  (pc = "Committed")
  => /\ Len(writes) = Len(response) + 1
     /\ \A i \in 1..Len(response) :
          writes[i] = SubSeq(response, 1, i) \o <<Cursor>>
     /\ writes[Len(response) + 1] = response

C4_Witness ==
  /\ pc = "Committed"
  /\ Len(response) = 2
  /\ response[1] # response[2]
  /\ Len(writes) = 3

\* C5: a submission that is empty or only whitespace changes nothing in the
\* conversation and causes no gateway invocation.
C5_BlankSubmissionIsNoOp ==
  (event = "submit" /\ IsBlank(prompt))
  => (messages = before /\ invoked = <<>>)

\* C6: clear in any idle state leaves the conversation empty, and a second
\* clear right after leaves the state as the first one left it.
C6_ClearEmptiesAndIsIdempotent ==
  /\ [](event = "clear" => (messages = <<>> /\ pc = "Idle"))
  /\ [][(Clear /\ event = "clear") => messages' = messages]_vars

C6_Witness ==
  /\ event = "clear"
  /\ Len(before) = 3
  /\ messages = <<>>

\* C7 (as stated): every non-blank submission invokes the gateway exactly
\* once, with exactly the prompt.
C7_InvokedExactlyOnceWithPrompt ==
  (pc \in {"Committed", "Failed"} /\ ~IsBlank(prompt))
  => invoked = <<prompt>>

\* C7 (amended): every non-blank submission invokes the gateway at most
\* once: exactly once when load_llm returns, not at all when load_llm raises.
\* The argument is exactly the prompt, whatever turns are in the conversation.
C7_InvokedOnceUnlessLoadFails ==
  (pc \in {"Committed", "Failed"} /\ ~IsBlank(prompt))
  => IF site = "load" THEN invoked = <<>> ELSE invoked = <<prompt>>

C7_Witness ==
  /\ pc = "Committed"
  /\ ~IsBlank(prompt)
  /\ Len(before) = 2
  /\ before[1].content # prompt
  /\ invoked = <<prompt>>

\* C8: after a submission of p whose response r is streamed to exhaustion,
\* the conversation is the one before the submission followed by {user, p}
\* and {assistant, r}; the assistant content is the increments in order and
\* holds no cursor.
C8_CommitAppendsUserThenAssistant ==
  (pc = "Committed")
  => /\ messages = before \o <<UserTurn(prompt), AssistantTurn(response)>>
     /\ \A i \in 1..Len(Last(messages).content) :
          Last(messages).content[i] # Cursor

C8_Witness ==
  /\ pc = "Committed"
  /\ Len(before) = 2
  /\ Len(response) = 2
  /\ response[1] # response[2]
  /\ response # prompt

\* C9: the conversation is empty at session start; every step other than
\* clear keeps the old conversation as a prefix of the new one, and clear
\* leaves it empty.
C9_AppendOnlyBetweenClears ==
  /\ messages = <<>>
  /\ [][IF Clear THEN messages' = <<>>
                 ELSE IsPrefix(messages, messages')]_vars

C9_Witness ==
  /\ pc = "Committed"
  /\ Len(before) = 2
  /\ before[1].role = "user" /\ before[2].role = "user"
  /\ Len(messages) = 4
  /\ IsPrefix(before, messages)

\* the phase changes of the spec's state machine
StatedPhaseSteps ==
  { <<"Idle", "AwaitingResponse">>, <<"AwaitingResponse", "Streaming">>,
    <<"Streaming", "Committed">>, <<"AwaitingResponse", "Failed">>,
    <<"Failed", "Idle">>, <<"Committed", "Idle">> }

\* C10 (as stated): a submission moves only along Idle -> AwaitingResponse
\* -> Streaming -> Committed or Idle -> AwaitingResponse -> Failed -> Idle.
C10_OnlyStatedPhaseSteps ==
  [][(<<pc, pc'>> \in StatedPhaseSteps)]_pc

\* C10 (amended): a submission moves only along Idle -> AwaitingResponse ->
\* Streaming -> Committed, Idle -> AwaitingResponse -> Failed -> Idle, or
\* Idle -> AwaitingResponse -> Streaming -> Failed -> Idle; the gateway is
\* invoked before any placeholder write; the assistant turn is appended only
\* after the final write without cursor; no step leaves a generation in
\* flight for Idle; every submission eventually is Committed or Failed.
C10_PhaseOrder ==
  /\ [][(<<pc, pc'>> \in StatedPhaseSteps \cup {<<"Streaming", "Failed">>})]_pc
  /\ [](writes # <<>> => Len(invoked) = 1)
  /\ [][(Len(messages') > Len(messages)
          /\ Last(messages').role = "assistant")
        => /\ pc = "Streaming" /\ pc' = "Committed"
           /\ Len(writes) = Len(response) + 1
           /\ Last(writes) = Last(messages').content]_vars
  /\ [][(pc \in {"AwaitingResponse", "Streaming"})
        => ~(Clear \/ Submit \/ Upload)]_vars
  /\ (pc = "AwaitingResponse") ~> (pc \in {"Committed", "Failed"})

C10_Witness ==
  /\ pc = "Failed"
  /\ site = "iterate"
  /\ Len(writes) = 2

\* C11: a non-blank submission that follows a failed one is processed as any
\* other: its user turn is appended right after the user turn the failure
\* left behind (two consecutive user turns), the gateway is invoked with the
\* prompt, a response streamed to the end is committed, and the session goes
\* on to accept submissions and clears.
C11_SubmissionAfterFailure ==
  (event = "submit" /\ ~IsBlank(prompt)
     /\ before # <<>> /\ Last(before).role = "user")
  => /\ Len(messages) > Len(before)
     /\ messages[Len(before)].role = "user"
     /\ messages[Len(before) + 1] = UserTurn(prompt)
     /\ pc \in {"Streaming", "Committed"} => invoked = <<prompt>>
     /\ (pc = "Committed" \/ (pc = "Idle" /\ site = "none"))
        => messages = before \o <<UserTurn(prompt), AssistantTurn(response)>>
     /\ pc \in {"Committed", "Failed"} => ENABLED EndRun
     /\ pc = "Idle" => (ENABLED Clear /\ ENABLED Submit)

C11_Witness ==
  /\ pc = "Idle"
  /\ event = "submit"
  /\ site = "none"
  /\ Len(before) = 1
  /\ before[1].role = "user"
  /\ Len(messages) = 3
  /\ messages[2].role = "user"
  /\ messages[3].role = "assistant"
  /\ messages[1].content # messages[2].content

RoleCount(msgs, r) == Cardinality({i \in 1..Len(msgs) : msgs[i].role = r})

\* C13: in every reachable state every assistant turn comes right after a
\* user turn: the first turn is not an assistant turn, no two assistant turns
\* are adjacent, and there are at most as many assistant as user turns.
C13_AssistantFollowsUser ==
  /\ \A i \in 1..Len(messages) :
       messages[i].role = "assistant"
       => (i > 1 /\ messages[i - 1].role = "user")
  /\ RoleCount(messages, "assistant") <= RoleCount(messages, "user")

C13_Witness ==
  /\ pc = "Idle"
  /\ uploaded_file # NoFile
  /\ event = "upload"
  /\ Len(messages) = 3
  /\ messages[1].role = "user"
  /\ messages[2].role = "user"
  /\ messages[3].role = "assistant"

====
